---- MODULE Spec2Model ----
(***************************************************************************)
(* A model of hertz-contrib/swagger (src/swagger.go): the construction of  *)
(* a Config by option functions (WrapHandler), and the request handler     *)
(* returned by CustomWrapHandler, run by concurrent requests that share    *)
(* one sync.Once and one webdav.Handler.Prefix.                            *)
(*                                                                         *)
(* Strings that the handler takes apart (the request URI, the regular      *)
(* expression's literals, the matched groups, the prefix) are sequences of *)
(* one-character strings, so that matching and filepath.Ext are computed   *)
(* character by character as the Go code computes them; so are the        *)
(* Config's strings the index template escapes (Title, URL, DocExpansion,  *)
(* Oauth2DefaultClientID).  Strings the handler only copies or compares    *)
(* (header values, instance names) are TLA+ strings.                       *)
(***************************************************************************)
EXTENDS Integers, Sequences, FiniteSets, TLC

VARIABLES
    applied,    \* history: the option functions applied so far, in order
    supplied,   \* history: the Config as handed to CustomWrapHandler
    config,     \* the Config record the handler closes over
    phase,      \* "options" while WrapHandler applies options, then "serving"
    swags,      \* the Document Registry of package swag: instance name -> document
    Prefix,     \* handler.Prefix of the shared webdav.Handler
    once,       \* the sync.Once of the handler: its done flag
    reqs,       \* per worker: the request it is handling and its RequestContext
    accepted,   \* number of requests accepted so far
    prefixSets  \* history: the number of writes of handler.Prefix

vars == <<applied, supplied, config, phase, swags, Prefix, once, reqs, accepted,
          prefixSets>>

----------------------------------------------------------------------------
(* Bounds of the model. *)

\* Requests accepted in one run (over all workers).
MaxRequests == 2

\* Option functions passed to one WrapHandler call.
MaxOptions == 2

\* The host framework's workers that run the handler concurrently.
Workers == {1, 2}

----------------------------------------------------------------------------
(* The literals of the matcher's alternation, swagger.go line 183, with    *)
(* the regular expression's escapes removed.                               *)
IndexHTML ==
    <<"i","n","d","e","x",".","h","t","m","l">>
DocJSON ==
    <<"d","o","c",".","j","s","o","n">>
Favicon16 ==
    <<"f","a","v","i","c","o","n","-","1","6","x","1","6",".","p","n","g">>
Favicon32 ==
    <<"f","a","v","i","c","o","n","-","3","2","x","3","2",".","p","n","g">>
Oauth2Redirect ==
    <<"/","o","a","u","t","h","2","-","r","e","d","i","r","e","c","t",".","h","t","m","l">>
SwaggerUICSS ==
    <<"s","w","a","g","g","e","r","-","u","i",".","c","s","s">>
SwaggerUICSSMap ==
    <<"s","w","a","g","g","e","r","-","u","i",".","c","s","s",".","m","a","p">>
SwaggerUIJS ==
    <<"s","w","a","g","g","e","r","-","u","i",".","j","s">>
SwaggerUIJSMap ==
    <<"s","w","a","g","g","e","r","-","u","i",".","j","s",".","m","a","p">>
SwaggerUIBundleJS ==
    <<"s","w","a","g","g","e","r","-","u","i","-","b","u","n","d","l","e",".","j","s">>
SwaggerUIBundleJSMap ==
    <<"s","w","a","g","g","e","r","-","u","i","-","b","u","n","d","l","e",".","j","s",".","m","a","p">>
SwaggerUIPresetJS ==
    <<"s","w","a","g","g","e","r","-","u","i","-","s","t","a","n","d","a","l","o","n","e","-","p","r","e","s","e","t",".","j","s">>
SwaggerUIPresetJSMap ==
    <<"s","w","a","g","g","e","r","-","u","i","-","s","t","a","n","d","a","l","o","n","e","-","p","r","e","s","e","t",".","j","s",".","m","a","p">>

\* The alternation in the order the regular expression lists it.
matcherAlternatives ==
    << IndexHTML, DocJSON, Favicon16, Favicon32, Oauth2Redirect,
       SwaggerUICSS, SwaggerUICSSMap, SwaggerUIJS, SwaggerUIJSMap,
       SwaggerUIBundleJS, SwaggerUIBundleJSMap,
       SwaggerUIPresetJS, SwaggerUIPresetJSMap >>

\* The character class [?|.] that ends the regular expression.
matcherTrailing == {"?", "|", "."}

\* What the dot of the regular expression matches: anything but a line feed.
DotMatches(c) == c # "\n"

\* The literal lit occurs in s from position j on.
LiteralAt(lit, s, j) ==
    /\ j + Len(lit) - 1 <= Len(s)
    /\ \A k \in 1..Len(lit) : s[j + k - 1] = lit[k]

\* The alternatives that match in s at position j.
AlternativesAt(s, j) ==
    {k \in 1..Len(matcherAlternatives) : LiteralAt(matcherAlternatives[k], s, j)}

Min(S) == CHOOSE x \in S : \A y \in S : x <= y
Max(S) == CHOOSE x \in S : \A y \in S : x >= y

\* The alternation is leftmost-first: of the alternatives that match at j,
\* the one listed first is taken.
FirstAlternativeAt(s, j) == Min(AlternativesAt(s, j))

\* The positions where group 2 can start when the match starts at i:
\* (.*) has matched s[i..j-1], and an alternative matches at j (one of hits,
\* the positions of s an alternative matches at).
GroupStarts(s, hits, i) ==
    {j \in hits : j >= i /\ \A k \in i..(j - 1) : DotMatches(s[k])}

\* The number of characters of s from position j on that [?|.]* takes.
RECURSIVE TrailingLen(_, _)
TrailingLen(s, j) ==
    IF j <= Len(s) /\ s[j] \in matcherTrailing
    THEN 1 + TrailingLen(s, j + 1)
    ELSE 0

\* matcher.FindStringSubmatch(s): <<>> (nil) when s has no match, else
\* <<whole match, group 1, group 2>>.  The match is unanchored and starts at
\* the leftmost position that has one; (.*) is greedy, so group 2 starts at
\* the last position the alternation matches at.
FindStringSubmatch(s) ==
    LET hits   == {j \in 1..(Len(s) + 1) : AlternativesAt(s, j) # {}}
        starts == {i \in 1..(Len(s) + 1) : GroupStarts(s, hits, i) # {}}
    IN  IF starts = {} THEN << >>
        ELSE LET i   == Min(starts)
                 j   == Max(GroupStarts(s, hits, i))
                 alt == matcherAlternatives[FirstAlternativeAt(s, j)]
                 e   == j + Len(alt)
                 z   == e + TrailingLen(s, e)
             IN  << SubSeq(s, i, z - 1), SubSeq(s, i, j - 1), alt >>

\* filepath.Ext(path): the suffix from the last dot of the last element of
\* path, "" when that element has no dot.
Ext(path) ==
    LET dots == {i \in 1..Len(path) :
                    /\ path[i] = "."
                    /\ \A k \in i..Len(path) : path[k] # "/"}
    IN  IF dots = {} THEN << >> ELSE SubSeq(path, Max(dots), Len(path))

----------------------------------------------------------------------------
(* Config and the option functions, swagger.go lines 59-166.                *)

\* swag.Name, the default instance name.
swagName == "swagger"

\* The string values of the Config's fields the template renders.
TitleSwaggerUI ==
    <<"S","w","a","g","g","e","r"," ","U","I">>
URLDocJSON ==
    <<"d","o","c",".","j","s","o","n">>
URLGithub ==
    <<"h","t","t","p","s",":","/","/","g","i","t","h","u","b",".","c","o","m","/",
      "h","e","r","t","z","-","c","o","n","t","r","i","b","/",
      "s","w","a","g","g","e","r">>
ExpansionList ==
    <<"l","i","s","t">>
ExpansionFull ==
    <<"f","u","l","l">>
ExpansionNone ==
    <<"n","o","n","e">>
DefaultClientID ==
    <<"d","e","f","a","u","l","t","_","c","l","i","e","n","t","_","i","d">>

\* The Config literal of WrapHandler.  SyntaxHighlight is not listed there
\* and has Go's zero value.
DefaultConfig ==
    [ URL                      |-> URLDocJSON,
      DocExpansion             |-> ExpansionList,
      InstanceName             |-> swagName,
      Title                    |-> TitleSwaggerUI,
      DefaultModelsExpandDepth |-> 1,
      DeepLinking              |-> TRUE,
      PersistAuthorization     |-> FALSE,
      Oauth2DefaultClientID    |-> << >>,
      SyntaxHighlight          |-> FALSE ]

\* Config{}: every field has Go's zero value.
ZeroConfig ==
    [ URL                      |-> << >>,
      DocExpansion             |-> << >>,
      InstanceName             |-> "",
      Title                    |-> << >>,
      DefaultModelsExpandDepth |-> 0,
      DeepLinking              |-> FALSE,
      PersistAuthorization     |-> FALSE,
      Oauth2DefaultClientID    |-> << >>,
      SyntaxHighlight          |-> FALSE ]

SyntaxHighlight(syntaxHighlight, c) ==
    [c EXCEPT !.SyntaxHighlight = syntaxHighlight]

URL(url, c) ==
    [c EXCEPT !.URL = url]

\* A variant in which a DocExpansion already changed from the default is kept.
DocExpansionFirstWins(docExpansion, c) ==
    [c EXCEPT !.DocExpansion = IF @ = ExpansionList THEN docExpansion ELSE @]

DocExpansion(docExpansion, c) ==
    [c EXCEPT !.DocExpansion = docExpansion]

DeepLinking(deepLinking, c) ==
    [c EXCEPT !.DeepLinking = deepLinking]

DefaultModelsExpandDepth(depth, c) ==
    [c EXCEPT !.DefaultModelsExpandDepth = depth]

InstanceName(name, c) ==
    [c EXCEPT !.InstanceName = name]

PersistAuthorization(persistAuthorization, c) ==
    [c EXCEPT !.PersistAuthorization = persistAuthorization]

Oauth2DefaultClientID(oauth2DefaultClientID, c) ==
    [c EXCEPT !.Oauth2DefaultClientID = oauth2DefaultClientID]

\* An option function is the pair of the option's name and its argument;
\* the name is the Config field the option is documented to set.
OptionValues ==
    [ URL                      |-> {URLDocJSON, URLGithub},
      DocExpansion             |-> {ExpansionList, ExpansionFull, ExpansionNone},
      DeepLinking              |-> BOOLEAN,
      DefaultModelsExpandDepth |-> {-1, 0, 1},
      InstanceName             |-> {"", "swagger", "custom_name"},
      PersistAuthorization     |-> BOOLEAN,
      Oauth2DefaultClientID    |-> {<< >>, DefaultClientID},
      SyntaxHighlight          |-> BOOLEAN ]

Options ==
    UNION {{<<f, v>> : v \in OptionValues[f]} : f \in DOMAIN OptionValues}

\* c(&config) for the option function o.
CallOption(o, c) ==
    CASE o[1] = "SyntaxHighlight"          -> SyntaxHighlight(o[2], c)
      [] o[1] = "URL"                      -> URL(o[2], c)
      [] o[1] = "DocExpansion"             -> DocExpansion(o[2], c)
      [] o[1] = "DeepLinking"              -> DeepLinking(o[2], c)
      [] o[1] = "DefaultModelsExpandDepth" -> DefaultModelsExpandDepth(o[2], c)
      [] o[1] = "InstanceName"             -> InstanceName(o[2], c)
      [] o[1] = "PersistAuthorization"     -> PersistAuthorization(o[2], c)
      [] o[1] = "Oauth2DefaultClientID"    -> Oauth2DefaultClientID(o[2], c)

\* The loop of WrapHandler over its options, from the Config c on.
RECURSIVE ApplyOptions(_, _)
ApplyOptions(options, c) ==
    IF options = << >> THEN c
    ELSE ApplyOptions(Tail(options), CallOption(Head(options), c))

\* The Config WrapHandler hands to CustomWrapHandler.
WrapHandlerConfig(options) == ApplyOptions(options, DefaultConfig)

\* The two defaults CustomWrapHandler fills in before it builds the handler.
CustomWrapHandlerConfig(c) ==
    LET c1 == IF c.InstanceName = "" THEN [c EXCEPT !.InstanceName = swagName] ELSE c
    IN  IF c1.Title = << >> THEN [c1 EXCEPT !.Title = TitleSwaggerUI] ELSE c1

\* The template.JS constant of toSwaggerConfig, lines 79-81 (a JavaScript
\* template literal that ends in /oauth2-redirect.html; its text, which
\* no Config field enters, is abbreviated here).
Oauth2RedirectURLValue == "window.location/oauth2-redirect.html"

\* config.toSwaggerConfig(): InstanceName is dropped, Oauth2RedirectURL added.
toSwaggerConfig(c) ==
    [ URL                      |-> c.URL,
      DeepLinking              |-> c.DeepLinking,
      DocExpansion             |-> c.DocExpansion,
      DefaultModelsExpandDepth |-> c.DefaultModelsExpandDepth,
      Oauth2RedirectURL        |-> Oauth2RedirectURLValue,
      Title                    |-> c.Title,
      PersistAuthorization     |-> c.PersistAuthorization,
      Oauth2DefaultClientID    |-> c.Oauth2DefaultClientID,
      SyntaxHighlight          |-> c.SyntaxHighlight ]

\* index.Execute is html/template's: each action of swaggerIndexTpl is
\* escaped for the context it stands in.  An escaped string is a sequence
\* of pieces, one per character of the value.  A character a TLA+ string
\* cannot hold is written as the name of its code point.
Backtick == "U+0060"
Apostrophe == "'"
LineSeparator == "U+2028"
ParagraphSeparator == "U+2029"
ReplacementCharacter == "U+FFFD"

\* The characters U+0000 to U+001F, in order.
LowUnicode ==
    << "U+0000", "U+0001", "U+0002", "U+0003", "U+0004", "U+0005", "U+0006",
       "U+0007", "U+0008", "\t",     "\n",     "U+000B", "\f",     "\r",
       "U+000E", "U+000F", "U+0010", "U+0011", "U+0012", "U+0013", "U+0014",
       "U+0015", "U+0016", "U+0017", "U+0018", "U+0019", "U+001A", "U+001B",
       "U+001C", "U+001D", "U+001E", "U+001F" >>

NUL == LowUnicode[1]

\* What a JavaScript or CSS escaper writes for each of them.
lowUnicodeReplacementTable ==
    << "\\u0000", "\\u0001", "\\u0002", "\\u0003", "\\u0004", "\\u0005", "\\u0006",
       "\\u0007", "\\u0008", "\\t",     "\\n",     "\\u000b", "\\f",     "\\r",
       "\\u000e", "\\u000f", "\\u0010", "\\u0011", "\\u0012", "\\u0013", "\\u0014",
       "\\u0015", "\\u0016", "\\u0017", "\\u0018", "\\u0019", "\\u001a", "\\u001b",
       "\\u001c", "\\u001d", "\\u001e", "\\u001f" >>

\* {{.Title}}, line 256, stands in the text of <title>: the HTML
\* replacement table, which leaves every other character as it is.
htmlReplacementTable(c) ==
    CASE c = NUL        -> ReplacementCharacter
      [] c = "\""       -> "&#34;"
      [] c = "&"        -> "&amp;"
      [] c = Apostrophe -> "&#39;"
      [] c = "+"        -> "&#43;"
      [] c = "<"        -> "&lt;"
      [] c = ">"        -> "&gt;"
      [] OTHER          -> c

rcdataEscaper(s) == [i \in 1..Len(s) |-> htmlReplacementTable(s[i])]

\* "{{.URL}}", "{{.DocExpansion}}" and "{{.Oauth2DefaultClientID}}", lines
\* 326, 340 and 345, stand in a JavaScript string of <script>: the
\* JavaScript string replacement table, after the table of the low
\* characters and before the two separators.
jsStrReplacementTable(c) ==
    CASE c = "\""       -> "\\u0022"
      [] c = Backtick   -> "\\u0060"
      [] c = "&"        -> "\\u0026"
      [] c = Apostrophe -> "\\u0027"
      [] c = "+"        -> "\\u002b"
      [] c = "/"        -> "\\/"
      [] c = "<"        -> "\\u003c"
      [] c = ">"        -> "\\u003e"
      [] c = "\\"       -> "\\\\"
      [] OTHER          -> ""

replace(c) ==
    IF \E i \in 1..Len(LowUnicode) : LowUnicode[i] = c
    THEN lowUnicodeReplacementTable[CHOOSE i \in 1..Len(LowUnicode) : LowUnicode[i] = c]
    ELSE IF jsStrReplacementTable(c) # "" THEN jsStrReplacementTable(c)
    ELSE IF c = LineSeparator THEN "\\u2028"
    ELSE IF c = ParagraphSeparator THEN "\\u2029"
    ELSE c

jsStrEscaper(s) == [i \in 1..Len(s) |-> replace(s[i])]

\* {{.SyntaxHighlight}}, {{.PersistAuthorization}}, {{.DeepLinking}} and
\* {{.DefaultModelsExpandDepth}}, lines 327, 331, 341 and 342, stand where
\* a JavaScript value does: the value's JSON text, with a space on each
\* side when its first or last character could run into an identifier.
FormatBool(b) ==
    IF b THEN <<"t","r","u","e">> ELSE <<"f","a","l","s","e">>

DecimalDigits == <<"0","1","2","3","4","5","6","7","8","9">>

RECURSIVE FormatNat(_)
FormatNat(n) ==
    IF n < 10 THEN <<DecimalDigits[n + 1]>>
    ELSE FormatNat(n \div 10) \o <<DecimalDigits[(n % 10) + 1]>>

FormatInt(n) ==
    IF n < 0 THEN <<"-">> \o FormatNat(-n) ELSE FormatNat(n)

isJSIdentPart(c) ==
    \/ c = "$"
    \/ c \in {DecimalDigits[i] : i \in 1..10}
    \/ c \in {"A","B","C","D","E","F","G","H","I","J","K","L","M",
              "N","O","P","Q","R","S","T","U","V","W","X","Y","Z"}
    \/ c = "_"
    \/ c \in {"a","b","c","d","e","f","g","h","i","j","k","l","m",
              "n","o","p","q","r","s","t","u","v","w","x","y","z"}

\* json is the JSON text of the value; the two separators, which JSON
\* allows and JavaScript does not, are written as escapes.
jsValEscaper(json) ==
    LET text == [i \in 1..Len(json) |->
                    IF json[i] = LineSeparator THEN "\\u2028"
                    ELSE IF json[i] = ParagraphSeparator THEN "\\u2029"
                    ELSE json[i]]
    IN  IF json = << >> THEN <<" null ">>
        ELSE IF isJSIdentPart(Head(json)) \/ isJSIdentPart(json[Len(json)])
        THEN <<" ">> \o text \o <<" ">>
        ELSE text

\* index.Execute: the fixed text of swaggerIndexTpl with its nine actions
\* filled in, in the order the template has them.  The fixed text between
\* two actions is one piece, named by the text that precedes the action.
\* {{.Oauth2RedirectURL}}, line 330, is a template.JS and is not escaped.
ExecuteIndex(sc) ==
       <<"<title>">>                   \o rcdataEscaper(sc.Title)
    \o <<"url: ">>                     \o jsStrEscaper(sc.URL)
    \o <<"syntaxHighlight: ">>         \o jsValEscaper(FormatBool(sc.SyntaxHighlight))
    \o <<"oauth2RedirectUrl: ">>       \o <<sc.Oauth2RedirectURL>>
    \o <<"persistAuthorization: ">>    \o jsValEscaper(FormatBool(sc.PersistAuthorization))
    \o <<"docExpansion: ">>            \o jsStrEscaper(sc.DocExpansion)
    \o <<"deepLinking: ">>             \o jsValEscaper(FormatBool(sc.DeepLinking))
    \o <<"defaultModelsExpandDepth: ">> \o jsValEscaper(FormatInt(sc.DefaultModelsExpandDepth))
    \o <<"const defaultClientId = ">>  \o jsStrEscaper(sc.Oauth2DefaultClientID)
    \o <<"</html>">>

----------------------------------------------------------------------------
(* The collaborators: package swag's registry and the webdav file system.  *)

\* The documents the environment registers, one per instance name; the
\* first is the document of the test's mockedSwag.
DocSwagger ==
    <<"{","\n","}">>

DocCustom ==
    <<"{","\"","a","\"",":","1","}">>

Registrations == {<<"swagger", DocSwagger>>, <<"custom_name", DocCustom>>}

\* swag.ReadDoc(name): <<FALSE, <<>>>> for the error of a name that is not
\* registered, else <<TRUE, the document>>.
ReadDoc(registry, name) ==
    IF name \in DOMAIN registry THEN <<TRUE, registry[name]>> ELSE <<FALSE, << >> >>

\* The name a webdav file system resolves a path to: rooted at "/".
slashClean(name) ==
    IF name # << >> /\ Head(name) = "/" THEN name ELSE <<"/">> \o name

\* The assets of the file system (swaggerFiles.Handler.FileSystem in the
\* tests): every asset the matcher lists, each with contents of its own,
\* read in chunks.
FSFiles ==
    { [name |-> slashClean(Favicon16),            data |-> <<"png16.1">>],
      [name |-> slashClean(Favicon32),            data |-> <<"png32.1">>],
      [name |-> slashClean(Oauth2Redirect),       data |-> <<"oauth2.1">>],
      [name |-> slashClean(SwaggerUICSS),         data |-> <<"css.1", "css.2">>],
      [name |-> slashClean(SwaggerUICSSMap),      data |-> <<"css.map.1">>],
      [name |-> slashClean(SwaggerUIJS),          data |-> <<"js.1">>],
      [name |-> slashClean(SwaggerUIJSMap),       data |-> <<"js.map.1">>],
      [name |-> slashClean(SwaggerUIBundleJS),    data |-> <<"bundle.1">>],
      [name |-> slashClean(SwaggerUIBundleJSMap), data |-> <<"bundle.map.1">>],
      [name |-> slashClean(SwaggerUIPresetJS),    data |-> <<"preset.1">>],
      [name |-> slashClean(SwaggerUIPresetJSMap), data |-> <<"preset.map.1">>] }

FSExists(name) == \E file \in FSFiles : file.name = slashClean(name)

FSData(name) == (CHOOSE file \in FSFiles : file.name = slashClean(name)).data

----------------------------------------------------------------------------
(* Requests.                                                               *)

MethodGet == "GET"

StatusMethodNotAllowed == 405
StatusNotFound == 404
StatusInternalServerError == 500
StatusOK == 200

\* The request URIs (ctx.Request.URI().String(): scheme, host, path, query)
\* the model draws from.
\* http://h/index.html
UriIndex ==
    <<"h","t","t","p",":","/","/","h","/","i","n","d","e","x",".","h","t","m","l">>
\* http://h/s/doc.json
UriDoc ==
    <<"h","t","t","p",":","/","/","h","/","s","/","d","o","c",".","j","s","o","n">>
\* http://h/favicon-16x16.png
UriFavicon16 ==
    <<"h","t","t","p",":","/","/","h","/","f","a","v","i","c","o","n","-","1","6","x","1","6",".","p","n","g">>
\* http://h/s/oauth2-redirect.html
UriOauth2Redirect ==
    <<"h","t","t","p",":","/","/","h","/","s","/","o","a","u","t","h","2","-","r","e","d","i","r","e","c","t",".","h","t","m","l">>
\* http://h/s/swagger-ui.css
UriCSS ==
    <<"h","t","t","p",":","/","/","h","/","s","/","s","w","a","g","g","e","r","-","u","i",".","c","s","s">>
\* http://h/swagger-ui.css.map
UriCSSMap ==
    <<"h","t","t","p",":","/","/","h","/","s","w","a","g","g","e","r","-","u","i",".","c","s","s",".","m","a","p">>
\* http://h/swagger-ui.js
UriJS ==
    <<"h","t","t","p",":","/","/","h","/","s","w","a","g","g","e","r","-","u","i",".","j","s">>
\* http://h/s/swagger-ui.js.map
UriJSMap ==
    <<"h","t","t","p",":","/","/","h","/","s","/","s","w","a","g","g","e","r","-","u","i",".","j","s",".","m","a","p">>
\* http://h/notfound
UriNotFound ==
    <<"h","t","t","p",":","/","/","h","/","n","o","t","f","o","u","n","d">>
\* http://h/s/notfound?f=index.html
UriNotFoundQuery ==
    <<"h","t","t","p",":","/","/","h","/","s","/","n","o","t","f","o","u","n","d","?","f","=","i","n","d","e","x",".","h","t","m","l">>
\* http://h/doc.jsonx/notfound
UriNotFoundTrailing ==
    <<"h","t","t","p",":","/","/","h","/","d","o","c",".","j","s","o","n","x","/","n","o","t","f","o","u","n","d">>
\* http://h/index.html?f=doc.json
UriIndexQuery ==
    <<"h","t","t","p",":","/","/","h","/","i","n","d","e","x",".","h","t","m","l","?","f","=","d","o","c",".","j","s","o","n">>
\* http://h/s/doc.json?f=index.html
UriDocQuery ==
    <<"h","t","t","p",":","/","/","h","/","s","/","d","o","c",".","j","s","o","n","?","f","=","i","n","d","e","x",".","h","t","m","l">>

\* The URIs requests carry: the page and the document, each also with a
\* query that names the other; an asset of each kind of extension, the
\* style sheet and the script with their .map names; URIs of no resource.
URIs ==
    {UriIndex,
     UriDoc,
     UriIndexQuery,
     UriDocQuery,
     UriFavicon16,
     UriOauth2Redirect,
     UriCSS,
     UriCSSMap,
     UriJS,
     UriJSMap,
     UriNotFound,
     UriNotFoundQuery,
     UriNotFoundTrailing}

\* The requests the model draws from: a GET of every URI, and requests of
\* other methods for a URI the matcher matches and for one it does not.
Requests ==
    ({MethodGet} \X URIs)
        \cup {<<"POST", UriIndex>>, <<"PUT", UriIndex>>, <<"POST", UriNotFound>>}

\* A worker with no request: the zero RequestContext.  The fields after buf
\* are history: the name the request asked the file system for, and how
\* often it called each collaborator, ended the response with a status,
\* wrote to the body, and set the prefix.
IdleRequest ==
    [ pc          |-> "idle",
      method      |-> "",
      uri         |-> << >>,
      matches     |-> << >>,
      status      |-> 0,
      contentType |-> "",
      body        |-> << >>,
      file        |-> << >>,
      pos         |-> 0,
      buf         |-> << >>,
      doc         |-> << >>,
      err         |-> FALSE,
      openName    |-> << >>,
      nReadDoc    |-> 0,
      nOpenFile   |-> 0,
      nReadErr    |-> 0,
      nAbort      |-> 0,
      nWrite      |-> 0,
      nSetPrefix  |-> 0 ]

\* The status of the response as the framework sends it: 200 unless the
\* handler set one.
StatusCode(r) == IF r.status = 0 THEN StatusOK ELSE r.status

\* ctx.AbortWithStatus(code): the status, no body written, the handler returns.
AbortWithStatus(r, code) ==
    [r EXCEPT !.status = code, !.nAbort = @ + 1, !.pc = "done"]

\* ctx.String(code, text): status, plain-text content type and body.
String(r, code, text) ==
    [r EXCEPT !.status = code,
              !.contentType = "text/plain; charset=utf-8",
              !.body = @ \o <<text>>,
              !.nAbort = @ + 1,
              !.pc = "done"]

\* ctx.Write(p) (and the writes of index.Execute): p is appended to the
\* response body; the RequestContext's Write returns no error.
Write(r, p) ==
    [r EXCEPT !.body = @ \o p, !.nWrite = @ + 1]

\* http.StatusText(http.StatusNotFound)
StatusTextNotFound == "Not Found"

\* The switch on filepath.Ext(path), lines 205-216: the Content-Type header
\* after it, given the header before it.
ContentTypeFor(path, before) ==
    LET ext == Ext(path)
    IN  CASE ext = <<".","h","t","m","l">> -> "text/html; charset=utf-8"
          [] ext = <<".","c","s","s">>     -> "text/css; charset=utf-8"
          [] ext = <<".","j","s">>         -> "application/javascript"
          [] ext = <<".","p","n","g">>     -> "image/png"
          [] ext = <<".","j","s","o","n">> -> "application/json; charset=utf-8"
          [] OTHER                         -> before

\* Go's matches[1] and matches[2] (TLA+ sequences start at 1).
CapturedPrefix(matches) == matches[2]
CapturedPath(matches) == matches[3]

----------------------------------------------------------------------------
(* The handler's steps.  A step is atomic where the Go code is: between    *)
(* two steps another request may run.                                      *)

ServingUnchanged == UNCHANGED <<applied, supplied, config, phase>>

\* case "index.html", line 220: the template is executed into the response.
ServeIndex(r, c) ==
    [Write(r, ExecuteIndex(toSwaggerConfig(c))) EXCEPT !.pc = "done"]

\* case "doc.json", line 222: doc, err := swag.ReadDoc(config.InstanceName).
\* The registry's lock is held for the lookup alone.
LookupDoc(r, registry, c) ==
    LET doc == ReadDoc(registry, c.InstanceName)
    IN  [r EXCEPT !.nReadDoc = @ + 1,
                  !.err = ~doc[1],
                  !.doc = doc[2],
                  !.pc = "lookedup"]

\* Lines 223-230: what the handler does with what ReadDoc returned.
AnswerDoc(r) ==
    IF r.err
    THEN AbortWithStatus(r, StatusInternalServerError)
    ELSE [Write(r, r.doc) EXCEPT !.pc = "done"]

\* default, line 233: f, err := handler.FileSystem.OpenFile(c, path,
\* O_RDONLY, 0); ok is whether the file system opens a file that exists.
OpenFile(r, path, ok) ==
    LET r1 == [r EXCEPT !.nOpenFile = @ + 1, !.openName = path]
    IN  IF ~(ok /\ FSExists(path))
        THEN [r1 EXCEPT !.err = TRUE, !.pc = "openfailed"]
        ELSE [r1 EXCEPT !.err = FALSE, !.file = slashClean(path), !.pos = 0,
                        !.pc = "reading"]

\* A variant that copies the file to the response as it reads it (io.Copy):
\* what was read before a failed Read is in the body already.
ReadStreaming(r, fails) ==
    LET data == FSData(r.file)
    IN  IF r.pos = Len(data)
        THEN [r EXCEPT !.err = FALSE, !.pc = "readfrom"]
        ELSE IF fails
        THEN [r EXCEPT !.err = TRUE, !.nReadErr = @ + 1, !.pc = "readfrom"]
        ELSE Write([r EXCEPT !.buf = Append(@, data[r.pos + 1]), !.pos = @ + 1],
                   <<data[r.pos + 1]>>)

\* One f.Read of buf.ReadFrom(f), line 239.  The Reads return the file's
\* chunks in order, then io.EOF, on which ReadFrom returns no error; a Read
\* that fails ends ReadFrom with its error.  What was read is in buf.
Read(r, fails) ==
    LET data == FSData(r.file)
    IN  IF r.pos = Len(data)
        THEN [r EXCEPT !.err = FALSE, !.pc = "readfrom"]
        ELSE IF fails
        THEN [r EXCEPT !.err = TRUE, !.nReadErr = @ + 1, !.pc = "readfrom"]
        ELSE [r EXCEPT !.buf = Append(@, data[r.pos + 1]), !.pos = @ + 1]

\* A variant without the return after a failed ReadFrom: the buffer is
\* written.
AnswerFileNoReturn(r) ==
    IF r.err
    THEN [Write(AbortWithStatus(r, StatusInternalServerError), r.buf)
             EXCEPT !.pc = "done"]
    ELSE [Write(r, r.buf) EXCEPT !.pc = "done"]

\* Lines 240-246: what the handler does with what ReadFrom returned.
AnswerFile(r) ==
    IF r.err
    THEN AbortWithStatus(r, StatusInternalServerError)
    ELSE [Write(r, r.buf) EXCEPT !.pc = "done"]

\* Lines 205-233: the content type, then the switch on path, up to the
\* return of the call the case makes.  ok is the file system's answer
\* should the request open a file.
Serve(r, c, registry, ok) ==
    LET path == CapturedPath(r.matches)
        r1   == [r EXCEPT !.contentType = ContentTypeFor(path, @)]
    IN  CASE path = IndexHTML -> ServeIndex(r1, c)
          [] path = DocJSON   -> LookupDoc(r1, registry, c)
          [] OTHER            -> OpenFile(r1, path, ok)

\* What OpenFile may answer a request that has matched: an error or, for a
\* file that exists, the file; one answer, which is not looked at, for a
\* path that is not served from a file.
FSOpens(r) ==
    LET path == CapturedPath(r.matches)
    IN  IF path \in {IndexHTML, DocJSON} THEN {TRUE}
        ELSE IF ~FSExists(path) THEN {FALSE}
        ELSE BOOLEAN

\* Whether the next Read of the request's file may fail: a Read that has
\* a chunk to return may, the Read at the end of the file returns io.EOF.
FSReadFails(r) ==
    IF r.pos < Len(FSData(r.file)) THEN BOOLEAN ELSE {FALSE}

\* The matcher applied to each URI of the model (a table, so that a URI is
\* matched once however many requests carry it).
matcherFind == [uri \in URIs |-> FindStringSubmatch(uri)]

\* Lines 186-200: the method check and the match.
\* A variant that rejects POST alone.
MethodAllowedButPost(method) == method # "POST"

MethodAllowed(method) == method = MethodGet

CheckRequest(r) ==
    LET matches == matcherFind[r.uri]
    IN  IF ~MethodAllowed(r.method)
        THEN AbortWithStatus(r, StatusMethodNotAllowed)
        ELSE IF Len(matches) # 3
        THEN String(r, StatusNotFound, StatusTextNotFound)
        ELSE [r EXCEPT !.matches = matches, !.pc = "once"]

\* The framework hands a request to a free worker (a worker whose last
\* response is complete takes the next request with a fresh context; of the
\* workers that never ran, the first is taken), and the handler runs up to
\* once.Do.
Request(w, method, uri) ==
    /\ phase = "serving"
    /\ reqs[w].pc \in {"idle", "done"}
    /\ \A v \in Workers : v < w => reqs[v].pc # "idle"
    /\ accepted < MaxRequests
    /\ reqs' = [reqs EXCEPT ![w] =
                   CheckRequest([IdleRequest EXCEPT !.method = method, !.uri = uri])]
    /\ accepted' = accepted + 1
    /\ UNCHANGED <<swags, Prefix, once, prefixSets>>
    /\ ServingUnchanged

\* once.Do, lines 201-203, as sync.Once runs it.  The fast path: the atomic
\* load of done.  A request that reads 1 goes on without the mutex; one
\* that reads 0 goes for the mutex.
OnceDo(w) ==
    /\ reqs[w].pc = "once"
    /\ reqs' = [reqs EXCEPT ![w].pc = IF once THEN "serve" ELSE "slow"]
    /\ UNCHANGED <<swags, Prefix, once, accepted, prefixSets>>
    /\ ServingUnchanged

\* A variant without the check of done under the mutex.
OnceRunsAlways(done) == TRUE

\* Under the mutex the function runs only if done is still 0.
OnceRuns(done) == ~done

\* The slow path, one critical section of the Once's mutex:
\* handler.Prefix = matches[1] and done = 1 if the function has not run
\* yet.  The mutex is released and once.Do returns.
OnceDoSlow(w) ==
    LET r    == reqs[w]
        runs == OnceRuns(once)
        r1   == IF runs THEN [r EXCEPT !.nSetPrefix = @ + 1] ELSE r
    IN  /\ r.pc = "slow"
        /\ IF runs
           THEN /\ Prefix' = CapturedPrefix(r.matches)
                /\ once' = TRUE
                /\ prefixSets' = prefixSets + 1
           ELSE UNCHANGED <<Prefix, once, prefixSets>>
        /\ reqs' = [reqs EXCEPT ![w] = [r1 EXCEPT !.pc = "serve"]]
        /\ UNCHANGED <<swags, accepted>>
        /\ ServingUnchanged

\* After once.Do has returned: the content type and the case of the switch,
\* up to the return of swag.ReadDoc or OpenFile (index.html is answered
\* here: the template reads nothing that is shared).
ServeRequest(w) ==
    /\ reqs[w].pc = "serve"
    /\ \E ok \in FSOpens(reqs[w]) :
         reqs' = [reqs EXCEPT ![w] = Serve(@, config, swags, ok)]
    /\ UNCHANGED <<swags, Prefix, once, accepted, prefixSets>>
    /\ ServingUnchanged

\* swag.ReadDoc has returned: the request is answered, lines 223-230.
DocAnswer(w) ==
    /\ reqs[w].pc = "lookedup"
    /\ reqs' = [reqs EXCEPT ![w] = AnswerDoc(@)]
    /\ UNCHANGED <<swags, Prefix, once, accepted, prefixSets>>
    /\ ServingUnchanged

\* OpenFile has returned an error: lines 234-237.
OpenFailed(w) ==
    /\ reqs[w].pc = "openfailed"
    /\ reqs' = [reqs EXCEPT ![w] = AbortWithStatus(@, StatusInternalServerError)]
    /\ UNCHANGED <<swags, Prefix, once, accepted, prefixSets>>
    /\ ServingUnchanged

\* One Read of buf.ReadFrom(f), line 239.
FileRead(w) ==
    /\ reqs[w].pc = "reading"
    /\ \E fails \in FSReadFails(reqs[w]) :
         reqs' = [reqs EXCEPT ![w] = Read(@, fails)]
    /\ UNCHANGED <<swags, Prefix, once, accepted, prefixSets>>
    /\ ServingUnchanged

\* buf.ReadFrom has returned: the request is answered, lines 240-246.
FileAnswer(w) ==
    /\ reqs[w].pc = "readfrom"
    /\ reqs' = [reqs EXCEPT ![w] = AnswerFile(@)]
    /\ UNCHANGED <<swags, Prefix, once, accepted, prefixSets>>
    /\ ServingUnchanged

\* swag.Register(name, doc) by the program that mounts the handler; a name
\* is registered once (Register panics on a second registration).
Register(name, doc) ==
    /\ phase = "serving"
    /\ name \notin DOMAIN swags
    /\ swags' = (name :> doc) @@ swags
    /\ UNCHANGED <<Prefix, once, reqs, accepted, prefixSets>>
    /\ ServingUnchanged

----------------------------------------------------------------------------
(* Construction: WrapHandler's loop over its options, then                 *)
(* CustomWrapHandler.                                                      *)

EmptyRegistry == [name \in {} |-> << >>]

HandlerUnchanged == UNCHANGED <<swags, Prefix, once, reqs, accepted, prefixSets>>

\* One turn of the loop of WrapHandler, lines 161-163.
ApplyOption(o) ==
    /\ phase = "options"
    /\ Len(applied) < MaxOptions
    /\ config' = CallOption(o, config)
    /\ applied' = Append(applied, o)
    /\ UNCHANGED <<supplied, phase>>
    /\ HandlerUnchanged

\* CustomWrapHandler, lines 169-178, called with the Config built so far.
Construct ==
    /\ phase = "options"
    /\ supplied' = config
    /\ config' = CustomWrapHandlerConfig(config)
    /\ phase' = "serving"
    /\ UNCHANGED applied
    /\ HandlerUnchanged

HandlerInit ==
    /\ swags = EmptyRegistry
    /\ Prefix = << >>
    /\ once = FALSE
    /\ reqs = [w \in Workers |-> IdleRequest]
    /\ accepted = 0
    /\ prefixSets = 0

\* The option lists and Configs the handlers of the serving model are built
\* from: WrapHandler without options, WrapHandler with an instance name and
\* a URL, and CustomWrapHandler(&Config{}, ...) as in the tests.
ServedOptionLists ==
    { << <<"InstanceName", "custom_name">>,
         <<"URL", URLGithub>> >> }

\* Construction alone: WrapHandler applies up to MaxOptions options.
InitOptions ==
    /\ applied = << >>
    /\ supplied = DefaultConfig
    /\ config = DefaultConfig
    /\ phase = "options"
    /\ HandlerInit

NextOptions ==
    \/ \E o \in Options : ApplyOption(o)
    \/ Construct

SpecOptions == InitOptions /\ [][NextOptions]_vars

\* Serving: the handler has been built, by WrapHandler from one of the
\* option lists or by CustomWrapHandler from the zero Config.
Init ==
    /\ \E direct \in BOOLEAN :
         IF direct
         THEN /\ applied = << >>
              /\ supplied = ZeroConfig
         ELSE /\ applied \in ServedOptionLists
              /\ supplied = WrapHandlerConfig(applied)
    /\ config = CustomWrapHandlerConfig(supplied)
    /\ phase = "serving"
    /\ HandlerInit

Next ==
    \/ \E w \in Workers, q \in Requests : Request(w, q[1], q[2])
    \/ \E w \in Workers : OnceDo(w)
    \/ \E w \in Workers : OnceDoSlow(w)
    \/ \E w \in Workers : ServeRequest(w)
    \/ \E w \in Workers : DocAnswer(w)
    \/ \E w \in Workers : OpenFailed(w)
    \/ \E w \in Workers : FileRead(w)
    \/ \E w \in Workers : FileAnswer(w)
    \/ \E r \in Registrations : Register(r[1], r[2])

Spec == Init /\ [][Next]_vars

----------------------------------------------------------------------------
(* The terms the properties are stated in: what a request asks for, read   *)
(* off its URI without the matcher.                                        *)

\* The recognised resource names.
OauthRedirectName ==
    <<"o","a","u","t","h","2","-","r","e","d","i","r","e","c","t",".","h","t","m","l">>

AssetNames ==
    { Favicon16, Favicon32, OauthRedirectName,
      SwaggerUICSS, SwaggerUICSSMap, SwaggerUIJS, SwaggerUIJSMap,
      SwaggerUIBundleJS, SwaggerUIBundleJSMap,
      SwaggerUIPresetJS, SwaggerUIPresetJSMap }

AllowList == {IndexHTML, DocJSON} \cup AssetNames

EndsWith(s, suffix) ==
    /\ Len(suffix) <= Len(s)
    /\ SubSeq(s, Len(s) - Len(suffix) + 1, Len(s)) = suffix

HasQuery(uri) == \E i \in 1..Len(uri) : uri[i] = "?"

\* The URI up to its query.
PathOf(uri) ==
    IF HasQuery(uri)
    THEN SubSeq(uri, 1, Min({i \in 1..Len(uri) : uri[i] = "?"}) - 1)
    ELSE uri

\* The recognised name the path {prefix}/{name} of the URI ends in; << >>
\* when the path is not of that form.
RequestedName(uri) ==
    LET named == {n \in AllowList : EndsWith(PathOf(uri), <<"/">> \o n)}
    IN  IF named = {} THEN << >> ELSE CHOOSE n \in named : TRUE

\* RequestedName and HasQuery of each URI of the model.
Asked == [uri \in URIs |-> [name |-> RequestedName(uri), query |-> HasQuery(uri)]]

\* r is a GET whose path is {prefix}/{name}, whatever query follows it.
GetOf(r, name) ==
    /\ r.method = MethodGet
    /\ Asked[r.uri].name = name

Done(r) == r.pc = "done"

\* The content type the extension of a resource name stands for; "" for an
\* extension that stands for none.
ContentTypeOfName(name) ==
    CASE EndsWith(name, <<".","h","t","m","l">>) -> "text/html; charset=utf-8"
      [] EndsWith(name, <<".","c","s","s">>)     -> "text/css; charset=utf-8"
      [] EndsWith(name, <<".","j","s">>)         -> "application/javascript"
      [] EndsWith(name, <<".","p","n","g">>)     -> "image/png"
      [] EndsWith(name, <<".","j","s","o","n">>) -> "application/json; charset=utf-8"
      [] OTHER                                   -> ""

\* The instance name the Configuration stands for: the one supplied, the
\* default when none was.
ConfiguredInstanceName ==
    IF supplied.InstanceName = "" THEN "swagger" ELSE supplied.InstanceName

\* The Configuration as the page shows it: the one supplied, an empty title
\* replaced.
ConfiguredPage ==
    ExecuteIndex(toSwaggerConfig(
        [supplied EXCEPT !.Title = IF @ = << >> THEN TitleSwaggerUI ELSE @]))

----------------------------------------------------------------------------
(* The properties.                                                         *)

\* C1: a request whose method is not GET, whatever its URI, is answered 405
\* with no body; it does not set the prefix, reads no document and opens no
\* file.
C1_NonGetRejected ==
    \A w \in Workers :
        LET r == reqs[w]
        IN  (Done(r) /\ r.method # MethodGet) =>
                /\ StatusCode(r) = 405
                /\ r.body = << >>
                /\ r.nSetPrefix = 0
                /\ r.nReadDoc = 0
                /\ r.nOpenFile = 0

\* A POST and a PUT of /index.html have both been answered 405, and the
\* prefix is still unset.
C1_Witness ==
    /\ \E w \in Workers :
          Done(reqs[w]) /\ reqs[w].method = "POST" /\ reqs[w].uri = UriIndex
              /\ StatusCode(reqs[w]) = 405
    /\ \E w \in Workers :
          Done(reqs[w]) /\ reqs[w].method = "PUT" /\ StatusCode(reqs[w]) = 405
    /\ ~once
    /\ Prefix = << >>

\* C2: a GET whose path is not {prefix}/{name} for a recognised name is
\* answered 404 with the body "Not Found", whatever else its URI holds; it
\* does not set the prefix, reads no document and opens no file.
C2_UnknownIsNotFound ==
    \A w \in Workers :
        LET r == reqs[w]
        IN  (Done(r) /\ r.method = MethodGet /\ Asked[r.uri].name = << >>) =>
                /\ StatusCode(r) = 404
                /\ r.body = <<"Not Found">>
                /\ r.nSetPrefix = 0
                /\ r.nReadDoc = 0
                /\ r.nOpenFile = 0

\* The state part of C3: a GET of {prefix}/doc.json that has been answered
\* has looked the registry up once and is answered by what the lookup
\* gave: 500 and no body for an error, 200 and the document else.
C3_Inv ==
    \A w \in Workers :
        LET r == reqs[w]
        IN  (Done(r) /\ GetOf(r, DocJSON)) =>
                /\ r.nReadDoc = 1
                /\ IF r.err
                   THEN StatusCode(r) = 500 /\ r.body = << >>
                   ELSE StatusCode(r) = 200 /\ r.body = r.doc

\* The step part of C3: the lookup of a GET of {prefix}/doc.json is made
\* in the registry as it is at that step, under the configured instance
\* name: an error while the name is not registered, the registered document
\* once it is.
C3_Step ==
    \A w \in Workers :
        LET r  == reqs[w]
            r2 == reqs'[w]
        IN  (GetOf(r2, DocJSON) /\ r2.nReadDoc > r.nReadDoc) =>
                IF ConfiguredInstanceName \in DOMAIN swags
                THEN ~r2.err /\ r2.doc = swags[ConfiguredInstanceName]
                ELSE r2.err

\* C3: a GET of {prefix}/doc.json looks the configured instance name (the
\* default name when the supplied one is empty) up in the registry as it is
\* at the time of the lookup, once, and is answered by what it finds: 500
\* and no body while the name is not registered, 200 and the registered
\* document once it is.
C3_DocLookup == []C3_Inv /\ [][C3_Step]_vars

\* C4: a GET of {prefix}/{asset} opens the requested asset, once, and is
\* answered 200 with the bytes stored for the requested asset, or 500.
C4_AssetServed ==
    \A w \in Workers :
        LET r    == reqs[w]
            name == Asked[r.uri].name
        IN  (Done(r) /\ r.method = MethodGet /\ ~Asked[r.uri].query /\ name \in AssetNames) =>
                /\ r.nOpenFile = 1
                /\ slashClean(r.openName) = slashClean(name)
                /\ StatusCode(r) \in {200, 500}
                /\ StatusCode(r) = 200 => r.body = FSData(name)

\* The state part of C5: at most one write; unset, the prefix is empty.
C5_Inv ==
    /\ prefixSets <= 1
    /\ once <=> prefixSets = 1
    /\ ~once => Prefix = << >>

\* The step part of C5: once set, the prefix stays set and keeps its value;
\* the step that sets it is the step of one GET that matched, and stores
\* the prefix that request captured.
C5_Step ==
    /\ once => (once' /\ Prefix' = Prefix)
    /\ (~once /\ once') =>
          \E w \in Workers :
              /\ reqs[w].method = MethodGet
              /\ matcherFind[reqs[w].uri] # << >>
              /\ Prefix' = CapturedPrefix(matcherFind[reqs[w].uri])
              /\ reqs'[w].nSetPrefix = 1
              /\ \A v \in Workers \ {w} : reqs'[v] = reqs[v]

\* C5: under any interleaving the prefix is written at most once, by a GET
\* that matched, with the whole prefix that request captured; unset, it is
\* empty; once set, no step of any request changes or clears it.
C5_PrefixSetOnce == []C5_Inv /\ [][C5_Step]_vars

\* A request that found the prefix unset is about to enter the Once after
\* another request, which captured a different prefix, has set it.
C5_Witness ==
    \E w \in Workers :
        /\ reqs[w].pc = "slow"
        /\ once
        /\ CapturedPrefix(reqs[w].matches) # Prefix

\* C6: a GET of {prefix}/index.html is answered 200, text/html, with the
\* template rendered against the Configuration, and reads no document and
\* opens no file.
C6_IndexRendered ==
    \A w \in Workers :
        LET r == reqs[w]
        IN  (Done(r) /\ GetOf(r, IndexHTML)) =>
                /\ StatusCode(r) = 200
                /\ r.contentType = "text/html; charset=utf-8"
                /\ r.body = ConfiguredPage
                /\ r.nReadDoc = 0
                /\ r.nOpenFile = 0

\* The value the options applied so far leave in field f: that of the last
\* option for f, the default if there is none.
LastWrite(f) ==
    LET at == {i \in 1..Len(applied) : applied[i][1] = f}
    IN  IF at = {} THEN DefaultConfig[f] ELSE applied[Max(at)][2]

\* C7: while options are applied, each field an option exists for holds the
\* value of the last option applied to it, or its default, and the title,
\* which no option sets, its default.
C7_LastWriteWins ==
    phase = "options" =>
        /\ \A f \in DOMAIN OptionValues : config[f] = LastWrite(f)
        /\ config.Title = TitleSwaggerUI

\* DocExpansion("full") then DocExpansion("none") has left "none".
C7_Witness ==
    /\ phase = "options"
    /\ applied = << <<"DocExpansion", ExpansionFull>>,
                    <<"DocExpansion", ExpansionNone>> >>
    /\ config.DocExpansion = ExpansionNone

\* C8: the Content-Type of the answer to a GET of {prefix}/{name} is the one
\* the extension of the requested name stands for, and none for a name
\* whose extension stands for none.
C8_ContentTypeByExtension ==
    \A w \in Workers :
        LET r    == reqs[w]
            name == Asked[r.uri].name
        IN  (Done(r) /\ r.method = MethodGet /\ ~Asked[r.uri].query /\ name # << >>) =>
                r.contentType = ContentTypeOfName(name)

\* C9: a request ends its response once and calls the collaborators at most
\* once: not at all for a 405, a 404 or index.html, ReadDoc once for
\* doc.json, OpenFile once for any other matched name; no call is repeated
\* after a failure.
C9_OneResponseOneRead ==
    \A w \in Workers :
        LET r == reqs[w]
        IN  /\ r.nReadDoc + r.nOpenFile <= 1
            /\ r.nReadErr <= 1
            /\ r.nAbort + r.nWrite <= 1
            /\ Done(r) =>
                 /\ r.nAbort + r.nWrite = 1
                 /\ StatusCode(r) \in {200, 404, 405, 500}
                 /\ IF StatusCode(r) \in {404, 405}
                    THEN r.nReadDoc = 0 /\ r.nOpenFile = 0
                    ELSE CASE CapturedPath(r.matches) = IndexHTML ->
                                 r.nReadDoc = 0 /\ r.nOpenFile = 0
                           [] CapturedPath(r.matches) = DocJSON ->
                                 r.nReadDoc = 1 /\ r.nOpenFile = 0
                           [] OTHER ->
                                 r.nReadDoc = 0 /\ r.nOpenFile = 1

\* One request has ended 500 after a failed Read, another 500 after a
\* failed ReadDoc.
C9_Witness ==
    \E v, w \in Workers :
        /\ Done(reqs[v]) /\ StatusCode(reqs[v]) = 500 /\ reqs[v].nReadErr = 1
        /\ Done(reqs[w]) /\ StatusCode(reqs[w]) = 500 /\ reqs[w].nReadDoc = 1

\* C10: a request that has opened a file has written nothing to the body
\* when it ends 500, and the whole file, from the buffer, when it ends 200.
C10_BufferedBeforeWrite ==
    \A w \in Workers :
        LET r == reqs[w]
        IN  (Done(r) /\ r.nOpenFile > 0) =>
                /\ StatusCode(r) = 500 => r.body = << >>
                /\ StatusCode(r) = 200 =>
                     r.buf = FSData(r.file) /\ r.body = r.buf /\ r.nWrite = 1

\* A Read failed after part of the file was in the buffer: 500, empty body.
C10_Witness ==
    \E w \in Workers :
        /\ Done(reqs[w]) /\ StatusCode(reqs[w]) = 500
        /\ reqs[w].nReadErr = 1
        /\ reqs[w].buf # << >>
        /\ reqs[w].body = << >>

====
